---- MODULE Spec2Model ----
(***************************************************************************)
(* Model of flechasdb-benchmark: the fvecs reader (src/src/sift.rs) and    *)
(* the batch benchmark, the flat (brute-force) query, the recall           *)
(* calculation and the statistics (src/src/main.rs).                       *)
(*                                                                         *)
(* One module holds several specifications over disjoint groups of         *)
(* variables.  Each specification leaves the other groups at their idle    *)
(* value.                                                                  *)
(*   Spec       : do_batch, then do_batch_async, over the same inputs      *)
(*   SpecFvecs  : read_fvecs over a byte stream                            *)
(*   SpecFlat   : flat_query over a vector set                             *)
(*   SpecRecall : calculate_recall over two identifier sequences           *)
(*   SpecStats  : Stats::compute over a sample series                      *)
(*   SpecProgress : the batch runs over query sets of more than a hundred  *)
(*                queries                                                  *)
(*                                                                         *)
(* Floats are exact: a duration is a whole number of clock units, a recall *)
(* a quotient of two integers, and 0 / 0 is NaN.  The buffers that the     *)
(* code sizes with an unsafe set_len (vector_buf, buf) are written in full *)
(* before they are read, or the function has already returned an error.    *)
(***************************************************************************)
EXTENDS Integers, Sequences, FiniteSets, TLC

VARIABLES
    \* ---- read_fvecs (sift.rs) ----
    stream,        \* the bytes behind `read: impl Read`
    pos,           \* number of bytes consumed so far
    fpc,           \* position in read_fvecs
    vector_size,   \* `vector_size` (first header), 0 before it is read
    block,         \* `block`: the floats read so far (as bit patterns)
    fvecs_result,  \* the value read_fvecs returned
    \* ---- flat_query (main.rs) ----
    vs,            \* data set: a sequence of vectors (identifier = index - 1)
    qv,            \* query vector
    k,             \* number of neighbours
    distances,     \* NBestByKey candidates: sequence of <<id, distance>>
    i,             \* loop index of the scan
    flat_pc,       \* position in flat_query
    flat_results,  \* the value flat_query returned
    worst_tie,     \* which of several equally bad candidates NBestByKey evicts
    \* ---- calculate_recall (main.rs) ----
    reference_results,
    results,
    recall_pc,
    recall,
    \* ---- batch runs (main.rs); vs, k and worst_tie above are shared ----
    qvs,           \* query set
    nprobe,
    limit,         \* `limit: Option<usize>`
    stats_path,    \* `stats_path: Option<String>`
    db,            \* behaviour of the database: which query fails, and how
    tick,          \* what the clock measures
    blocking,      \* the run of do_batch
    cooperative,   \* the run of do_batch_async / _do_batch_async
    \* ---- Stats::compute (main.rs) ----
    stats_input,   \* the series as it was recorded (history)
    stats_records, \* `records: Vec<T>`, sorted in place
    stats_pc,      \* position in Stats::compute
    stats_result   \* the value Stats::compute returned

fvecsVars  == <<stream, pos, fpc, vector_size, block, fvecs_result>>
flatVars   == <<vs, qv, k, distances, i, flat_pc, flat_results, worst_tie>>
recallVars == <<reference_results, results, recall_pc, recall>>
batchVars  == <<qvs, nprobe, limit, stats_path, db, tick, blocking, cooperative>>
statsVars  == <<stats_input, stats_records, stats_pc, stats_result>>
vars == <<fvecsVars, flatVars, recallVars, batchVars, statsVars>>

\* ------------------------------------------------------------------------
\* Generic helpers
\* ------------------------------------------------------------------------
Min(a, b) == IF a <= b THEN a ELSE b

Range(s) == {s[n] : n \in 1..Len(s)}

\* ------------------------------------------------------------------------
\* Bounds
\* ------------------------------------------------------------------------
\* Largest number of complete records in a generated stream.
MaxRecords == 2
\* Query sets of the long runs hold ProgressEvery to ProgressEvery +
\* MaxExtraQueries queries.
MaxExtraQueries == 1
\* Longest sample series handed to Stats::compute alone, and largest sample.
MaxSamples == 4
MaxSample == 4
\* Largest data set, vector dimension, coordinate and k of the flat query runs.
MaxVectors == 4
FlatDim == 2
MaxCoord == 1
MaxK == 3
\* Largest identifier and sequence length of the recall runs.
MaxId == 2
MaxLen == 3
\* Largest query set, data set, k, limit and clock tick of the batch runs.
MaxQueries == 3
MaxData == 2
MaxBatchK == 2
MaxLimit == 3
MaxTick == 2

\* ------------------------------------------------------------------------
\* sift.rs
\* ------------------------------------------------------------------------
\* pub const VECTOR_SIZE: usize = 128;
VECTOR_SIZE == 128

\* Mutant of LE32: a decoding that keeps the low byte only.
LE32_LowByte(b) == b[1]

\* Little-endian decoding of four bytes (ReadBytesExt::read_u32::<LittleEndian>,
\* and the bit pattern of one f32 of read_f32_into::<LittleEndian>).
LE32(b) == b[1] + 256 * b[2] + 65536 * b[3] + 16777216 * b[4]

\* The inverse layout, used to build the input streams.
LEBytes(n) == << n % 256, (n \div 256) % 256, (n \div 65536) % 256,
                 (n \div 16777216) % 256 >>

\* Read::read_exact: the next n bytes, or UnexpectedEof when fewer remain.
CanRead(n) == Len(stream) - pos >= n
Bytes(n) == SubSeq(stream, pos + 1, pos + n)

\* Mutant of Floats: the payload is taken from the start of the record, header
\* included, instead of after the header.
Floats_FromHeader(len) ==
    [j \in 1..len |-> LE32(SubSeq(stream, pos + 4 * (j - 1) + 1, pos + 4 * j))]

\* read_f32_into over a buffer of `len` floats, the header of the record being
\* at `pos`: 4 * len bytes, each group of four decoded little-endian.
Floats(len) == [j \in 1..len |-> LE32(SubSeq(stream, pos + 4 * j + 1, pos + 4 * j + 4))]

\* BlockVectorSet::chunk(block, vector_size): the block cut in vectors of
\* vector_size elements.
Chunk(blk, size) ==
    [ vector_size |-> size,
      len |-> Len(blk) \div size,
      vectors |-> [n \in 1..(Len(blk) \div size) |->
                      SubSeq(blk, (n - 1) * size + 1, n * size)] ]

Ok(v) == [ok |-> TRUE, value |-> v]
Err(e) == [ok |-> FALSE, error |-> e]
None == [none |-> TRUE]
Some(v) == [some |-> v]

\* ---- input streams ------------------------------------------------------
\* Dimensions a record header may declare: the SIFT size, a small one, and one
\* whose little-endian encoding needs a second byte (128 + 256).
Dims == {VECTOR_SIZE, 2, 384}

\* Bit pattern of float j (1-based) of the n-th record of a stream.
FloatBits(n, j) == n * 1000 + j

\* The bytes of one record: the header, then d floats.
RecordBytes(d, n) ==
    LEBytes(d) \o [b \in 1..(4 * d) |->
                     LEBytes(FloatBits(n, ((b - 1) \div 4) + 1))[((b - 1) % 4) + 1]]

RECURSIVE StreamOf(_, _)
\* The concatenation of the records dims[from..], numbered from `from`.
StreamOf(dims, from) ==
    IF from > Len(dims) THEN << >>
    ELSE RecordBytes(dims[from], from) \o StreamOf(dims, from + 1)

\* Lengths at which a trailing record of dimension d is cut: inside the header,
\* right after it, inside a float, after 50 floats, one byte short.
TailLens(d) == {1, 2, 3, 4, 5, 4 * d + 3} \cup (IF d > 50 THEN {4 + 4 * 50} ELSE {})

\* A trailing partial record: nothing, or the first t bytes of a record.
TailBytes(tail, n) ==
    IF tail[2] = 0 THEN << >> ELSE SubSeq(RecordBytes(tail[1], n), 1, tail[2])

SeqsUpTo(S, n) == UNION {[1..m -> S] : m \in 0..n}

FvecsIdle ==
    /\ stream = << >> /\ pos = 0 /\ fpc = "idle" /\ vector_size = 0
    /\ block = << >> /\ fvecs_result = None

FvecsInit ==
    /\ \E dims \in SeqsUpTo(Dims, MaxRecords) :
       \E d \in Dims \cup {0} :
       \E t \in (IF d = 0 THEN {0} ELSE TailLens(d)) :
           stream = StreamOf(dims, 1) \o TailBytes(<<d, t>>, Len(dims) + 1)
    /\ pos = 0
    /\ fpc = "start"
    /\ vector_size = 0
    /\ block = << >>
    /\ fvecs_result = None

\* ---- read_fvecs ---------------------------------------------------------
FvecsFail(e) ==
    /\ fpc' = "done"
    /\ fvecs_result' = Err(e)
    /\ pos' = Len(stream)
    /\ UNCHANGED <<stream, block>>

\* Lines 27-39: the first record, which fixes the vector size.
ReadFirstVector ==
    /\ fpc = "start"
    /\ IF ~CanRead(4)
       THEN FvecsFail("IOError") /\ UNCHANGED vector_size
       ELSE LET size == LE32(Bytes(4)) IN
            IF size # VECTOR_SIZE
            THEN FvecsFail("InvalidData") /\ vector_size' = size
            ELSE IF Len(stream) - (pos + 4) < 4 * size
            THEN FvecsFail("IOError") /\ vector_size' = size
            ELSE /\ vector_size' = size
                 /\ block' = block \o Floats(size)
                 /\ pos' = pos + 4 + 4 * size
                 /\ fpc' = "loop"
                 /\ UNCHANGED <<stream, fvecs_result>>
    /\ UNCHANGED <<flatVars, recallVars, batchVars, statsVars>>

\* Lines 41-56: one turn of the loop over the remaining records.
ReadNextVector ==
    /\ fpc = "loop"
    /\ IF ~CanRead(4)
       THEN \* Err(err) if err.kind() == UnexpectedEof => break
            /\ fpc' = "chunk"
            /\ pos' = Len(stream)
            /\ UNCHANGED <<stream, block, fvecs_result>>
       ELSE LET d == LE32(Bytes(4)) IN
            IF d # vector_size
            THEN FvecsFail("InvalidData")
            ELSE IF Len(stream) - (pos + 4) < 4 * vector_size
            THEN FvecsFail("IOError")
            ELSE /\ block' = block \o [j \in 1..vector_size |->
                        LE32(SubSeq(stream, pos + 4 * j + 1, pos + 4 * j + 4))]
                 /\ pos' = pos + 4 + 4 * vector_size
                 /\ UNCHANGED <<stream, fpc, fvecs_result>>
    /\ UNCHANGED <<vector_size, flatVars, recallVars, batchVars, statsVars>>

\* Line 57: Ok(BlockVectorSet::chunk(block, vector_size)?)
ReturnVectorSet ==
    /\ fpc = "chunk"
    /\ fpc' = "done"
    /\ fvecs_result' = IF Len(block) % vector_size = 0
                       THEN Ok(Chunk(block, vector_size))
                       ELSE Err("FlechasDBError")
    /\ UNCHANGED <<stream, pos, vector_size, block, flatVars, recallVars, batchVars, statsVars>>

FlatIdle ==
    /\ vs = << >> /\ qv = << >> /\ k = 0 /\ distances = << >> /\ i = 0
    /\ flat_pc = "idle" /\ flat_results = << >> /\ worst_tie = "first"

RecallIdle ==
    /\ reference_results = << >> /\ results = << >> /\ recall_pc = "idle"
    /\ recall = None

BatchIdle ==
    /\ qvs = << >> /\ nprobe = 0 /\ limit = None /\ stats_path = None
    /\ db = None /\ tick = 0 /\ blocking = None /\ cooperative = None

StatsIdle ==
    /\ stats_input = << >> /\ stats_records = << >> /\ stats_pc = "idle"
    /\ stats_result = None

InitFvecs == FvecsInit /\ FlatIdle /\ RecallIdle /\ BatchIdle /\ StatsIdle

NextFvecs == ReadFirstVector \/ ReadNextVector \/ ReturnVectorSet

SpecFvecs == InitFvecs /\ [][NextFvecs]_vars

\* ------------------------------------------------------------------------
\* main.rs: flat_query
\* ------------------------------------------------------------------------
RECURSIVE Dot(_, _, _)
\* flechasdb::linalg::dot(a, b) from component j on.
Dot(a, b, j) == IF j > Len(a) THEN 0 ELSE a[j] * b[j] + Dot(a, b, j + 1)

\* flechasdb::linalg::subtract(v, q, &mut buf)
Subtract(v, q) == [j \in 1..Len(v) |-> v[j] - q[j]]

\* Lines 541-542: subtract(vs.get(i), qv, &mut buf); dot(&buf, &buf)
SquaredDistance(v, q) == Dot(Subtract(v, q), Subtract(v, q), 1)

\* The key function given to NBestByKey::new: |t: &(usize, f32)| t.1
Key(t) == t[2]

\* Index of the candidate with the largest key. NBestByKey belongs to the
\* flechasdb crate; which of several candidates with the same largest key it
\* evicts is fixed by the crate, and the model covers both the first and the
\* last of them (worst_tie).
WorstIndex(cands) ==
    CHOOSE w \in 1..Len(cands) :
        /\ \A n \in 1..Len(cands) : Key(cands[n]) <= Key(cands[w])
        /\ IF worst_tie = "first"
           THEN \A n \in 1..(w - 1) : Key(cands[n]) < Key(cands[w])
           ELSE \A n \in (w + 1)..Len(cands) : Key(cands[n]) < Key(cands[w])

\* NBestByKey::push: the candidates are kept in a vector of at most n items;
\* once it is full a new item takes the place of the worst candidate when its
\* key is smaller, and is dropped otherwise.
NBestPush(cands, n, item) ==
    IF Len(cands) < n THEN Append(cands, item)
    ELSE IF n = 0 THEN cands
    ELSE LET w == WorstIndex(cands) IN
         IF Key(item) < Key(cands[w]) THEN [cands EXCEPT ![w] = item] ELSE cands

RECURSIVE InsertByKey(_, _)
\* Stable insertion of t into the sorted sequence s: after every item whose
\* key is not larger.
InsertByKey(s, t) ==
    IF s = << >> THEN <<t>>
    ELSE IF Key(t) < Key(s[Len(s)])
         THEN Append(InsertByKey(SubSeq(s, 1, Len(s) - 1), t), s[Len(s)])
         ELSE Append(s, t)

RECURSIVE SortByKey(_)
\* Line 544: distances.sort_by(|l, r| l.1.partial_cmp(&r.1).unwrap()), a stable
\* sort of the candidate vector.
SortByKey(s) ==
    IF s = << >> THEN << >>
    ELSE InsertByKey(SortByKey(SubSeq(s, 1, Len(s) - 1)), s[Len(s)])

\* Lines 545-548: into_iter().map(|(i, _)| i).collect()
Ids(s) == [n \in 1..Len(s) |-> s[n][1]]

RECURSIVE FlatScan(_, _, _, _, _)
\* Lines 540-543: the scan from identifier n on (vector n + 1 of the sequence).
FlatScan(data, q, kk, n, cands) ==
    IF n >= Len(data) THEN cands
    ELSE FlatScan(data, q, kk, n + 1,
                  NBestPush(cands, kk, <<n, SquaredDistance(data[n + 1], q)>>))

\* flat_query(vs, qv, k)
FlatQuery(data, q, kk) == Ids(SortByKey(FlatScan(data, q, kk, 0, << >>)))

Coords == 0..MaxCoord
Vectors == [1..FlatDim -> Coords]

FlatInit ==
    /\ vs \in UNION {[1..m -> Vectors] : m \in 1..MaxVectors}
    /\ qv \in Vectors
    /\ k \in 1..MaxK
    /\ distances = << >>
    /\ i = 0
    /\ flat_pc = "scan"
    /\ flat_results = << >>
    /\ worst_tie \in {"first", "last"}

\* Lines 540-543: one turn of the scan.
FlatPush ==
    /\ flat_pc = "scan"
    /\ i < Len(vs)
    /\ distances' = NBestPush(distances, k, <<i, SquaredDistance(vs[i + 1], qv)>>)
    /\ i' = i + 1
    /\ UNCHANGED <<vs, qv, k, flat_pc, flat_results, worst_tie, fvecsVars, recallVars, batchVars, statsVars>>

\* Lines 544-548: sort the candidates and return their identifiers.
FlatReturn ==
    /\ flat_pc = "scan"
    /\ i >= Len(vs)
    /\ distances' = SortByKey(distances)
    /\ flat_results' = Ids(SortByKey(distances))
    /\ flat_pc' = "done"
    /\ UNCHANGED <<vs, qv, k, i, worst_tie, fvecsVars, recallVars, batchVars, statsVars>>

InitFlat == FvecsIdle /\ FlatInit /\ RecallIdle /\ BatchIdle /\ StatsIdle

NextFlat == FlatPush \/ FlatReturn

SpecFlat == InitFlat /\ [][NextFlat]_vars

\* ------------------------------------------------------------------------
\* main.rs: calculate_recall
\* ------------------------------------------------------------------------
\* A float: the quotient num / den of two integers (den > 0), or NaN.
Value(num, den) == [kind |-> "value", num |-> num, den |-> den]
NaN == [kind |-> "NaN"]
\* The outcome of a failed assertion or unwrap.
Panic == [kind |-> "panic"]

\* f32 / f32 of two whole numbers: 0 / 0 is NaN.
Divide(num, den) == IF den = 0 THEN NaN ELSE Value(num, den)

RECURSIVE Hits_Positional(_, _)
\* Mutant of Hits: a result counts only at the position it has in the reference.
Hits_Positional(ref, res) ==
    IF res = << >> THEN 0
    ELSE (IF Len(res) <= Len(ref) /\ ref[Len(res)] = res[Len(res)] THEN 1 ELSE 0)
         + Hits_Positional(ref, SubSeq(res, 1, Len(res) - 1))

RECURSIVE Hits(_, _)
\* Lines 557-560: results.iter().map(|i| if reference_results.contains(i)
\* { 1.0 } else { 0.0 }).sum()
Hits(ref, res) ==
    IF res = << >> THEN 0
    ELSE (IF \E n \in 1..Len(ref) : ref[n] = res[Len(res)] THEN 1 ELSE 0)
         + Hits(ref, SubSeq(res, 1, Len(res) - 1))

\* calculate_recall(reference_results, results)
CalculateRecall(ref, res) ==
    IF Len(ref) # Len(res) THEN Panic      \* assert_eq!, line 556
    ELSE Divide(Hits(ref, res), Len(res))  \* line 561

RecallInit ==
    /\ reference_results \in SeqsUpTo(0..MaxId, MaxLen)
    /\ results \in SeqsUpTo(0..MaxId, MaxLen)
    /\ recall_pc = "call"
    /\ recall = None

\* Line 556: the assertion on the two lengths.
RecallAssert ==
    /\ recall_pc = "call"
    /\ IF Len(reference_results) # Len(results)
       THEN recall_pc' = "done" /\ recall' = CalculateRecall(reference_results, results)
       ELSE recall_pc' = "sum" /\ UNCHANGED recall
    /\ UNCHANGED <<reference_results, results, fvecsVars, flatVars, batchVars, statsVars>>

\* Lines 557-561: the sum and the division.
RecallReturn ==
    /\ recall_pc = "sum"
    /\ recall' = CalculateRecall(reference_results, results)
    /\ recall_pc' = "done"
    /\ UNCHANGED <<reference_results, results, fvecsVars, flatVars, batchVars, statsVars>>

InitRecall == FvecsIdle /\ FlatIdle /\ RecallInit /\ BatchIdle /\ StatsIdle

NextRecall == RecallAssert \/ RecallReturn

SpecRecall == InitRecall /\ [][NextRecall]_vars

\* ------------------------------------------------------------------------
\* main.rs: Stats::compute and QueryStatsRecorder
\* ------------------------------------------------------------------------
Inf == [kind |-> "inf"]
IsNum(a) == a.kind = "value"

\* T::from_as(n)
FromAs(n) == Value(n, 1)

\* AddAssign, Sub, Mul and Div of the floats, exact on quotients.
AddNum(a, b) ==
    IF ~IsNum(a) \/ ~IsNum(b) THEN NaN
    ELSE IF a.den = b.den THEN Value(a.num + b.num, a.den)
    ELSE Value(a.num * b.den + b.num * a.den, a.den * b.den)
SubNum(a, b) ==
    IF ~IsNum(a) \/ ~IsNum(b) THEN NaN
    ELSE IF a.den = b.den THEN Value(a.num - b.num, a.den)
    ELSE Value(a.num * b.den - b.num * a.den, a.den * b.den)
MulNum(a, b) ==
    IF ~IsNum(a) \/ ~IsNum(b) THEN NaN
    ELSE Value(a.num * b.num, a.den * b.den)
DivNum(a, b) ==
    IF ~IsNum(a) \/ ~IsNum(b) THEN NaN
    ELSE IF b.num = 0 THEN (IF a.num = 0 THEN NaN ELSE Inf)
    ELSE Value(a.num * b.den, a.den * b.num)

\* Sqrt::sqrt, kept symbolic.
Sqrt(a) == IF IsNum(a) THEN [kind |-> "sqrt", of |-> a] ELSE a

\* l.partial_cmp(r) == Some(Less)
LessNum(a, b) == a.num * b.den < b.num * a.den

\* The series left in the order it was recorded.
SortNums_Unsorted(s) == s

\* Line 638: records.sort_by(|l, r| l.partial_cmp(r).unwrap()), a stable sort:
\* the sample recorded at j lands after every smaller sample and after the
\* equal samples recorded no later than it.
SortNums(s) ==
    LET n == Len(s)
        Place(j) ==
            Cardinality({h \in 1..n : LessNum(s[h], s[j])})
            + Cardinality({h \in 1..j : ~LessNum(s[h], s[j]) /\ ~LessNum(s[j], s[h])})
    IN [p \in 1..n |-> s[CHOOSE j \in 1..n : Place(j) = p]]

RECURSIVE SumRange(_, _, _)
\* The sum of s[lo..hi], starting from zero. The arithmetic is exact, so the
\* order of the additions does not change the sum; halving the range keeps the
\* evaluation of a series of a hundred samples shallow.
SumRange(s, lo, hi) ==
    IF lo > hi THEN FromAs(0)
    ELSE IF lo = hi THEN AddNum(FromAs(0), s[lo])
    ELSE LET mid == (lo + hi) \div 2
         IN AddNum(SumRange(s, lo, mid), SumRange(s, mid + 1, hi))

\* flechasdb::linalg::sum
SumNums(s) == SumRange(s, 1, Len(s))

\* flechasdb::linalg::dot(&records, &records)
DotNums(s) == SumRange([j \in 1..Len(s) |-> MulNum(s[j], s[j])], 1, Len(s))

\* Stats::compute(records). No samples: records[0] (and, with overflow checks,
\* records.len() - 1) panics. A NaN among two or more samples: the comparator's
\* unwrap panics.
StatsCompute(records) ==
    LET n == Len(records) IN
    IF n = 0 THEN Panic
    ELSE IF n >= 2 /\ \E j \in 1..n : ~IsNum(records[j]) THEN Panic
    ELSE LET sorted == IF n >= 2 THEN SortNums(records) ELSE records
             sum == SumNums(sorted)
             mean == DivNum(sum, FromAs(n))
             squared_sum == DotNums(sorted)
             var == DivNum(SubNum(squared_sum, MulNum(MulNum(FromAs(n), mean), mean)),
                           FromAs(n - 1))
         IN [ mean |-> DivNum(sum, FromAs(n)),
              std |-> Sqrt(var),
              median |-> sorted[(n \div 2) + 1],
              min |-> sorted[1],
              max |-> sorted[n],
              q1 |-> sorted[(n \div 4) + 1],
              q3 |-> sorted[((n * 3) \div 4) + 1] ]

\* Stats::compute on its own, over every short series of samples: whole
\* numbers and NaN, in every order.
SampleValues == {Value(n, 1) : n \in 0..MaxSample} \cup {NaN}

SampleSeries == UNION {[1..n -> SampleValues] : n \in 0..MaxSamples}

StatsInit ==
    /\ stats_input \in SampleSeries
    /\ stats_records = stats_input
    /\ stats_pc = "sort"
    /\ stats_result = None

\* records.sort_by(|l, r| l.partial_cmp(r).unwrap()): two or more samples are
\* compared, and the unwrap panics on a NaN.
StatsSort ==
    /\ stats_pc = "sort"
    /\ IF Len(stats_records) >= 2 /\ \E j \in 1..Len(stats_records) : ~IsNum(stats_records[j])
       THEN stats_pc' = "done" /\ stats_result' = Panic /\ UNCHANGED stats_records
       ELSE /\ stats_records' = (IF Len(stats_records) >= 2 THEN SortNums(stats_records)
                                                           ELSE stats_records)
            /\ stats_pc' = "summary"
            /\ UNCHANGED stats_result
    /\ UNCHANGED <<stats_input, fvecsVars, flatVars, recallVars, batchVars>>

\* The rest of Stats::compute: sum, mean, variance and the order statistics.
StatsSummary ==
    /\ stats_pc = "summary"
    /\ stats_result' = StatsCompute(stats_records)
    /\ stats_pc' = "done"
    /\ UNCHANGED <<stats_input, stats_records, fvecsVars, flatVars, recallVars, batchVars>>

InitStats == FvecsIdle /\ FlatIdle /\ RecallIdle /\ BatchIdle /\ StatsInit

NextStats == StatsSort \/ StatsSummary

SpecStats == InitStats /\ [][NextStats]_vars

\* QueryStatsRecorder::new(k, nprobe)
NewRecorder(kk, np) ==
    [k |-> kk, nprobe |-> np, seconds |-> << >>, flat_seconds |-> << >>,
     recalls |-> << >>]

\* The new samples put in front of the earlier ones.
AddRecord_Prepend(st, seconds, flat_seconds, rec) ==
    [st EXCEPT !.seconds = <<seconds>> \o @,
               !.flat_seconds = <<flat_seconds>> \o @,
               !.recalls = <<rec>> \o @]

\* QueryStatsRecorder::add_record
AddRecord(st, seconds, flat_seconds, rec) ==
    [st EXCEPT !.seconds = Append(@, seconds),
               !.flat_seconds = Append(@, flat_seconds),
               !.recalls = Append(@, rec)]

\* QueryStatsRecorder::finish
Finish(st) ==
    LET a == StatsCompute(st.seconds)
        b == StatsCompute(st.flat_seconds)
        c == StatsCompute(st.recalls)
    IN IF Panic \in {a, b, c} THEN Panic
       ELSE [k |-> st.k, nprobe |-> st.nprobe, num_queries |-> Len(st.seconds),
             seconds |-> a, flat_seconds |-> b, recalls |-> c]

\* ------------------------------------------------------------------------
\* main.rs: do_batch and do_batch_async
\* ------------------------------------------------------------------------
\* Progress is printed for every query index that is a multiple of this.
ProgressEvery == 100

\* Mutant of NumQueries: the limit is ignored.
NumQueries_NoLimit(lim, n) == n

\* Lines 321-323: limit.map(|n| min(n, qvs.len())).unwrap_or(qvs.len())
NumQueries(lim, n) == IF lim = None THEN n ELSE Min(lim.some, n)

\* The data set and the query set of a batch run: points on a line.
DataSet(n) == [j \in 1..n |-> <<j - 1>>]

\* Number of results the database returns for a query.
IndexLen == Min(k, Len(vs))

\* Identifiers the database finds for query qi: a run of neighbouring points.
IndexIds(q) == [j \in 1..IndexLen |-> (q + j - 1) % Len(vs)]

\* result.get_attribute("datum_id") of result j of query q.
GetAttribute(q, j) ==
    IF db.fail_at = q /\ j = IndexLen /\ db.kind = "attr_err" THEN Err("FlechasDBError")
    ELSE IF db.fail_at = q /\ j = IndexLen /\ db.kind = "missing" THEN Ok(None)
    ELSE IF db.fail_at = q /\ j = IndexLen /\ db.kind = "type"
         THEN Ok(Some([tag |-> "String"]))
    ELSE Ok(Some([tag |-> "Uint64", v |-> IndexIds(q)[j]]))

\* db.query(qv, k, nprobe): an error, or the number of results.
DbQuery(q) ==
    IF db.fail_at = q /\ db.kind = "query" THEN Err("FlechasDBError")
    ELSE IF db.fail_at = q /\ db.kind = "short" THEN Ok(IndexLen - 1)
    ELSE Ok(IndexLen)

\* Mutant of DatumId: a missing or mistyped datum_id is read as 0.
DatumId_Lenient(attr) ==
    IF ~attr.ok THEN attr
    ELSE IF attr.value = None THEN Ok(0)
    ELSE IF attr.value.some.tag = "Uint64" THEN Ok(attr.value.some.v)
    ELSE Ok(0)

\* Lines 335-347 (507-519): the datum_id of one result.
DatumId(attr) ==
    IF ~attr.ok THEN attr
    ELSE IF attr.value = None THEN Err("InvalidData")
    ELSE IF attr.value.some.tag = "Uint64" THEN Ok(attr.value.some.v)
    ELSE Err("InvalidData")

\* Mutant of Collect: the results without a datum_id are left out.
Collect_SkipErrors(outcomes) ==
    LET good == {j \in 1..Len(outcomes) : outcomes[j].ok} IN
    Ok([n \in 1..Cardinality(good) |->
          outcomes[CHOOSE j \in good : Cardinality({m \in good : m < j}) = n - 1].value])

\* Line 349: collect::<Result<Vec<_>, _>>() over the results in order.
Collect(outcomes) ==
    IF \E j \in 1..Len(outcomes) : ~outcomes[j].ok
    THEN outcomes[CHOOSE j \in 1..Len(outcomes) :
                    ~outcomes[j].ok /\ \A m \in 1..(j - 1) : outcomes[m].ok]
    ELSE Ok([j \in 1..Len(outcomes) |-> outcomes[j].value])

\* time.elapsed().as_secs_f64() around the indexed and the flat query.
ElapsedQuery(q) == FromAs(1 + ((q * tick) % 3))
ElapsedFlat(q) == FromAs(1 + ((q + tick) % 2))

\* A run before its first step.
NewRun ==
    [ pc |-> "start", qi |-> 0, num_queries |-> 0, stats |-> None,
      results |-> << >>, pending |-> {}, order |-> << >>, got |-> << >>,
      issued |-> << >>, progress |-> << >>, failure |-> None,
      report |-> None, stats_file |-> None ]

BatchInit ==
    /\ \E n \in 1..MaxData : vs = DataSet(n)
    /\ \E n \in 1..MaxQueries : qvs = DataSet(n)
    /\ k \in 1..MaxBatchK
    /\ nprobe = 1
    /\ limit \in {None} \cup {Some(n) : n \in 0..MaxLimit}
    /\ stats_path \in {None, Some("stats.json")}
    /\ db \in {[fail_at |-> -1, kind |-> "none"]}
              \cup [fail_at : 0..(MaxQueries - 1),
                    kind : {"query", "attr_err", "missing", "type", "short"}]
    /\ tick \in 1..MaxTick
    /\ worst_tie \in {"first", "last"}
    /\ blocking = NewRun
    /\ cooperative = NewRun
    /\ qv = << >> /\ distances = << >> /\ i = 0 /\ flat_pc = "idle"
    /\ flat_results = << >>

\* The run failed: an error returned by `?` (which main unwraps) or a panic.
Failed(run, how) == [run EXCEPT !.pc = "failed", !.failure = Some(how)]

\* Lines 320-323 (492-495): the recorder and the number of queries.
Begin(run) ==
    [run EXCEPT !.pc = "loop",
                !.stats = NewRecorder(k, nprobe),
                !.num_queries = NumQueries(limit, Len(qvs))]

\* A progress line for every query.
Issue_EveryQuery(run) ==
    [run EXCEPT !.progress = Append(@, <<run.qi, run.num_queries>>),
                !.issued = Append(@, run.qi)]

\* Lines 325-327 (497-499): the progress line, and the query handed to the
\* database.
Issue(run) ==
    [run EXCEPT !.progress = IF run.qi % ProgressEvery = 0
                             THEN Append(@, <<run.qi, run.num_queries>>) ELSE @,
                !.issued = Append(@, run.qi)]

\* Lines 350-357 (522-529): the flat query, the recall and the record.
Record(run, ids) ==
    LET flat == FlatQuery(vs, qvs[run.qi + 1], k)
        rec == CalculateRecall(flat, ids)
    IN IF rec = Panic THEN Failed([run EXCEPT !.results = ids], "panic")
       ELSE [run EXCEPT !.results = ids,
                        !.stats = AddRecord(@, ElapsedQuery(run.qi),
                                            ElapsedFlat(run.qi), rec),
                        !.qi = @ + 1,
                        !.pc = "loop"]

\* Line 362 (531): stats.finish()
Summarize(run) ==
    LET st == Finish(run.stats) IN
    IF st = Panic THEN Failed(run, "panic")
    ELSE [run EXCEPT !.pc = "report", !.report = Some(st)]

\* Lines 394-401 (464-471): the statistics written to stats_path, if given.
Save(run) ==
    [run EXCEPT !.pc = "done",
                !.stats_file = IF stats_path = None THEN None ELSE run.report]

batchInputs == <<qvs, nprobe, limit, stats_path, db, tick>>

\* ---- do_batch ----
BlockingStart ==
    /\ blocking.pc = "start"
    /\ blocking' = Begin(blocking)
    /\ UNCHANGED <<cooperative, batchInputs, fvecsVars, flatVars, recallVars, statsVars>>

\* Lines 324-350: the indexed query and the datum_id of every result.
BlockingQuery ==
    /\ blocking.pc = "loop"
    /\ blocking.qi < blocking.num_queries
    /\ LET run == Issue(blocking)
           res == DbQuery(blocking.qi)
       IN IF ~res.ok THEN blocking' = Failed(run, "error")
          ELSE LET ids == Collect([j \in 1..res.value |->
                                     DatumId(GetAttribute(blocking.qi, j))])
               IN IF ~ids.ok THEN blocking' = Failed(run, "error")
                  ELSE blocking' = [run EXCEPT !.pc = "flat", !.results = ids.value]
    /\ UNCHANGED <<cooperative, batchInputs, fvecsVars, flatVars, recallVars, statsVars>>

\* Lines 351-357.
BlockingRecord ==
    /\ blocking.pc = "flat"
    /\ blocking' = Record(blocking, blocking.results)
    /\ UNCHANGED <<cooperative, batchInputs, fvecsVars, flatVars, recallVars, statsVars>>

\* Lines 359-362.
BlockingFinish ==
    /\ blocking.pc = "loop"
    /\ blocking.qi >= blocking.num_queries
    /\ blocking' = Summarize(blocking)
    /\ UNCHANGED <<cooperative, batchInputs, fvecsVars, flatVars, recallVars, statsVars>>

\* Lines 394-401.
BlockingSave ==
    /\ blocking.pc = "report"
    /\ blocking' = Save(blocking)
    /\ UNCHANGED <<cooperative, batchInputs, fvecsVars, flatVars, recallVars, statsVars>>

\* ---- do_batch_async ----
\* The two runs are separate invocations of the program over the same inputs
\* and share no state; the cooperative one is taken after the blocking one.
Ended(run) == run.pc \in {"done", "failed"}

CooperativeStart ==
    /\ Ended(blocking)
    /\ cooperative.pc = "start"
    /\ cooperative' = Begin(cooperative)
    /\ UNCHANGED <<blocking, batchInputs, fvecsVars, flatVars, recallVars, statsVars>>

\* Lines 496-503: db.query(...) is called and the task waits for it.
CooperativeQuery ==
    /\ cooperative.pc = "loop"
    /\ cooperative.qi < cooperative.num_queries
    /\ cooperative' = [Issue(cooperative) EXCEPT !.pc = "await_query"]
    /\ UNCHANGED <<blocking, batchInputs, fvecsVars, flatVars, recallVars, statsVars>>

\* Lines 503-506: the query resolves; one get_attribute future per result is
\* handed to try_join_all.
CooperativeQueryReady ==
    /\ cooperative.pc = "await_query"
    /\ LET res == DbQuery(cooperative.qi)
       IN IF ~res.ok THEN cooperative' = Failed(cooperative, "error")
          ELSE cooperative' = [cooperative EXCEPT !.pc = "await_attrs",
                                                  !.pending = 1..res.value,
                                                  !.order = << >>,
                                                  !.got = [j \in 1..res.value |-> None]]
    /\ UNCHANGED <<blocking, batchInputs, fvecsVars, flatVars, recallVars, statsVars>>

\* Lines 506-520: one of the pending futures resolves, in any order; an error
\* ends try_join_all at once.
CooperativeAttribute ==
    /\ cooperative.pc = "await_attrs"
    /\ \E j \in cooperative.pending :
         LET id == DatumId(GetAttribute(cooperative.qi, j))
         IN IF ~id.ok THEN cooperative' = Failed(cooperative, "error")
            ELSE cooperative' = [cooperative EXCEPT !.pending = @ \ {j},
                                                    !.order = Append(@, j),
                                                    !.got[j] = id.value]
    /\ UNCHANGED <<blocking, batchInputs, fvecsVars, flatVars, recallVars, statsVars>>

\* Mutant of Joined: the identifiers in the order the futures resolved.
Joined_InCompletionOrder(order, got) == [j \in 1..Len(got) |-> got[order[j]]]

\* Line 521: try_join_all(...).await? yields the identifiers in the order of
\* the futures, whatever the order they resolved in.
Joined(order, got) == [j \in 1..Len(got) |-> got[j]]

\* Lines 521-529: every future resolved; the rest of the turn has no await.
CooperativeRecord ==
    /\ cooperative.pc = "await_attrs"
    /\ cooperative.pending = {}
    /\ cooperative' = Record(cooperative, Joined(cooperative.order, cooperative.got))
    /\ UNCHANGED <<blocking, batchInputs, fvecsVars, flatVars, recallVars, statsVars>>

\* Line 531.
CooperativeFinish ==
    /\ cooperative.pc = "loop"
    /\ cooperative.qi >= cooperative.num_queries
    /\ cooperative' = Summarize(cooperative)
    /\ UNCHANGED <<blocking, batchInputs, fvecsVars, flatVars, recallVars, statsVars>>

\* Lines 464-471.
CooperativeSave ==
    /\ cooperative.pc = "report"
    /\ cooperative' = Save(cooperative)
    /\ UNCHANGED <<blocking, batchInputs, fvecsVars, flatVars, recallVars, statsVars>>

InitBatch == FvecsIdle /\ RecallIdle /\ BatchInit /\ StatsIdle

NextBatch ==
    \/ BlockingStart \/ BlockingQuery \/ BlockingRecord \/ BlockingFinish
    \/ BlockingSave
    \/ CooperativeStart \/ CooperativeQuery \/ CooperativeQueryReady
    \/ CooperativeAttribute \/ CooperativeRecord \/ CooperativeFinish
    \/ CooperativeSave

Spec == InitBatch /\ [][NextBatch]_vars

\* ------------------------------------------------------------------------
\* Claims about the batch runs
\* ------------------------------------------------------------------------
\* The same two runs over query sets long enough for a second progress line:
\* one data vector, k = 1, with or without a limit of ProgressEvery queries,
\* and a database that fails, if at all, at the query just before or at the
\* second progress line.
ProgressInit ==
    /\ vs = DataSet(1)
    /\ \E n \in 0..MaxExtraQueries : qvs = DataSet(ProgressEvery + n)
    /\ k = 1
    /\ nprobe = 1
    /\ limit \in {None, Some(ProgressEvery)}
    /\ stats_path = Some("stats.json")
    /\ db \in {[fail_at |-> -1, kind |-> "none"]}
              \cup [fail_at : {ProgressEvery - 1, ProgressEvery}, kind : {"query"}]
    /\ tick = 1
    /\ worst_tie = "first"
    /\ blocking = NewRun
    /\ cooperative = NewRun
    /\ qv = << >> /\ distances = << >> /\ i = 0 /\ flat_pc = "idle"
    /\ flat_results = << >>

InitProgress == FvecsIdle /\ RecallIdle /\ ProgressInit /\ StatsIdle

SpecProgress == InitProgress /\ [][NextBatch]_vars

Runs == {blocking, cooperative}

\* min(L, Q), or Q without a limit.
ExpectedCount ==
    IF limit = None THEN Len(qvs)
    ELSE IF limit.some <= Len(qvs) THEN limit.some ELSE Len(qvs)

\* The query at which the database makes the run fail, if it does.
FailsAt(f) == db.kind # "none" /\ db.fail_at = f /\ f < ExpectedCount

\* C1: a run hands the query indices 0, 1, 2, ... to the database in this
\* order, each once and none beyond min(L, Q) - 1; a run that reaches its
\* report has handed over all of them, and the report's num_queries is
\* min(L, Q) (Q without a limit).
C1_QueriesInOrderUpToLimit ==
    \A run \in Runs :
        run.pc # "start" =>
            /\ run.num_queries = ExpectedCount
            /\ Len(run.issued) <= ExpectedCount
            /\ \A j \in 1..Len(run.issued) : run.issued[j] = j - 1
            /\ run.report # None =>
                 /\ Len(run.issued) = ExpectedCount
                 /\ run.report.some.num_queries = ExpectedCount
                 /\ Len(run.stats.seconds) = ExpectedCount

C1_Witness ==
    /\ limit = Some(2)
    /\ Len(qvs) = 3
    /\ blocking.pc = "done"
    /\ blocking.issued = <<0, 1>>
    /\ blocking.report.some.num_queries = 2
    /\ cooperative.pc = "done"
    /\ cooperative.report.some.num_queries = 2

\* C2: when a step of query f fails, the run ends there: no query after f is
\* handed to the database, the samples of the queries before f are never
\* summarized in a report, and no statistics file is written.
C2_FailureAbortsRun ==
    \A run \in Runs :
        /\ run.pc = "failed" => (run.report = None /\ run.stats_file = None)
        /\ \A f \in 0..(MaxQueries - 1) :
             FailsAt(f) =>
                /\ \A j \in 1..Len(run.issued) : run.issued[j] <= f
                /\ run.pc \notin {"report", "done"}
                /\ run.report = None
                /\ run.stats_file = None
                /\ run.pc = "failed" =>
                     (run.qi = f /\ Len(run.stats.seconds) = f)

C2_Witness ==
    /\ stats_path # None
    /\ db = [fail_at |-> 1, kind |-> "missing"]
    /\ blocking.pc = "failed"
    /\ cooperative.pc = "failed"
    /\ cooperative.qi = 1
    /\ Len(cooperative.stats.seconds) = 1
    /\ cooperative.issued = <<0, 1>>

\* C3: over the same inputs the blocking and the cooperative run record the
\* same samples in the same order, end in the same report and the same
\* statistics file, and fail on the same inputs in the same way.
C3_BlockingEqualsCooperative ==
    (Ended(blocking) /\ Ended(cooperative)) =>
        /\ blocking.pc = cooperative.pc
        /\ blocking.failure = cooperative.failure
        /\ blocking.stats = cooperative.stats
        /\ blocking.report = cooperative.report
        /\ blocking.stats_file = cooperative.stats_file
        /\ blocking.issued = cooperative.issued

C3_Witness ==
    /\ blocking.pc = "done"
    /\ cooperative.pc = "done"
    /\ Len(cooperative.stats.recalls) = 3
    /\ cooperative.order = <<2, 1>>
    /\ cooperative.report # None
    /\ cooperative.report = blocking.report
    /\ cooperative.stats_file = cooperative.report

\* C4: in the cooperative run at most one query is under way: while the task
\* waits for the database or for the attributes of query qi, the records of
\* the queries 0 .. qi - 1 are all in place and no later query was issued; and
\* the identifiers given to the recall are those of the results in the order
\* the database returned them, whatever the order the lookups resolved in.
C4_CooperativeQueriesDoNotOverlap ==
    LET run == cooperative IN
    /\ run.pc \in {"await_query", "await_attrs"} =>
         /\ Len(run.stats.seconds) = run.qi
         /\ Len(run.stats.flat_seconds) = run.qi
         /\ Len(run.stats.recalls) = run.qi
         /\ Len(run.issued) = run.qi + 1
         /\ run.issued[Len(run.issued)] = run.qi
    /\ run.pc \in {"loop", "report", "done"} =>
         /\ Len(run.issued) = run.qi
         /\ Len(run.stats.recalls) = run.qi
         /\ run.qi >= 1 => run.results = IndexIds(run.qi - 1)

C4_Witness ==
    /\ cooperative.pc = "await_query"
    /\ cooperative.qi = 1
    /\ cooperative.order = <<2, 1>>
    /\ cooperative.results = IndexIds(0)
    /\ Len(cooperative.stats.recalls) = 1

\* ------------------------------------------------------------------------
\* Claims about read_fvecs
\* ------------------------------------------------------------------------
RECURSIVE Layout(_, _)
\* The record layout of the stream from offset p on, read off the bytes alone:
\* the dimensions of the complete records, and how the stream ends: at a record
\* boundary, inside a header, inside a payload, or at a record whose header
\* disagrees with the first one.
Layout(p, dims) ==
    LET left == Len(stream) - p IN
    IF left = 0 THEN [dims |-> dims, tail |-> "boundary", at |-> p]
    ELSE IF left < 4 THEN [dims |-> dims, tail |-> "mid_header", at |-> p]
    ELSE LET d == stream[p + 1] + 256 * stream[p + 2] + 65536 * stream[p + 3]
                  + 16777216 * stream[p + 4] IN
         IF Len(dims) > 0 /\ d # dims[1]
         THEN [dims |-> dims, tail |-> "mismatch", at |-> p]
         ELSE IF left - 4 < 4 * d
         THEN [dims |-> dims, tail |-> "mid_payload", at |-> p]
         ELSE Layout(p + 4 + 4 * d, Append(dims, d))

StreamLayout == Layout(0, << >>)

\* The raw little-endian float j (1-based) of record n (1-based) of a stream of
\* records of dimension D: byte offset (n-1)(4+4D) + 4 + 4(j-1).
RawFloat(D, n, j) ==
    LET o == (n - 1) * (4 + 4 * D) + 4 + 4 * (j - 1) IN
    stream[o + 1] + 256 * stream[o + 2] + 65536 * stream[o + 3]
    + 16777216 * stream[o + 4]

\* The dimension the first four bytes of the stream declare.
FirstHeader ==
    stream[1] + 256 * stream[2] + 65536 * stream[3] + 16777216 * stream[4]

\* C6 (as stated): read_fvecs fails whenever the stream ends in the middle of a
\* record, be it inside a 4-byte header or inside the payload.
C6_TruncatedAlwaysFails ==
    (fpc = "done" /\ StreamLayout.tail \in {"mid_header", "mid_payload"})
        => ~fvecs_result.ok

C8_DimensionMismatchFails ==
    (fpc = "done" /\ StreamLayout.tail = "mismatch")
        => /\ fvecs_result = Err("InvalidData")
           /\ StreamLayout.dims[1] = VECTOR_SIZE
                => Len(block) = VECTOR_SIZE * Len(StreamLayout.dims)

C8_Witness ==
    /\ fpc = "done"
    /\ StreamLayout.tail = "mismatch"
    /\ Len(StreamLayout.dims) = 2
    /\ Len(block) = 2 * VECTOR_SIZE
    /\ fvecs_result = Err("InvalidData")

\* ------------------------------------------------------------------------
\* Claims about flat_query
\* ------------------------------------------------------------------------
\* Squared Euclidean distance of the vector with identifier n to the query.
TrueDistance(n) ==
    LET v == vs[n + 1] IN
    LET sq[j \in 0..Len(v)] ==
            IF j = 0 THEN 0 ELSE sq[j - 1] + (v[j] - qv[j]) * (v[j] - qv[j])
    IN sq[Len(v)]

\* Identifier a comes before identifier b: nearer, or as near with a smaller
\* identifier.
Before(a, b) ==
    \/ TrueDistance(a) < TrueDistance(b)
    \/ TrueDistance(a) = TrueDistance(b) /\ a < b

\* C5 (as stated): flat_query returns min(k, |vs|) distinct identifiers in
\* ascending order of distance, ties broken by ascending identifier.
C5_SortedByDistanceThenId ==
    flat_pc = "done" =>
        /\ Len(flat_results) = Min(k, Len(vs))
        /\ \A a, b \in 1..Len(flat_results) :
              a < b => Before(flat_results[a], flat_results[b])

\* What flat_query does guarantee: min(k, |vs|) distinct identifiers, ascending
\* by distance, none farther than an identifier left out.
C5_NearestInSomeTieOrder ==
    flat_pc = "done" =>
        /\ Len(flat_results) = Min(k, Len(vs))
        /\ \A a, b \in 1..Len(flat_results) :
              a < b => /\ flat_results[a] # flat_results[b]
                       /\ TrueDistance(flat_results[a]) <= TrueDistance(flat_results[b])
        /\ \A n \in 0..(Len(vs) - 1) :
              n \notin Range(flat_results) =>
                  \A a \in 1..Len(flat_results) :
                      TrueDistance(flat_results[a]) <= TrueDistance(n)
        /\ flat_results = FlatQuery(vs, qv, k)

\* ------------------------------------------------------------------------
\* Claims about calculate_recall
\* ------------------------------------------------------------------------
\* C9: on two non-empty sequences of one length the recall is the number of
\* result entries found anywhere in the reference over the reference length, it
\* lies in [0, 1], and it is 1 when the two sequences are the same.
C9_RecallIsSetOverlap ==
    (recall_pc = "done" /\ Len(reference_results) = Len(results) /\ Len(results) > 0)
        => /\ recall.kind = "value"
           /\ recall.num = Cardinality({n \in 1..Len(results) :
                                results[n] \in Range(reference_results)})
           /\ recall.den = Len(reference_results)
           /\ 0 <= recall.num /\ recall.num <= recall.den
           /\ (reference_results = results => recall.num = recall.den)

C9_Witness ==
    /\ recall_pc = "done"
    /\ Len(reference_results) = 3 /\ Len(results) = 3
    /\ results[1] = reference_results[3]
    /\ results[1] # reference_results[1]
    /\ results[2] \notin Range(reference_results)
    /\ recall.kind = "value" /\ recall.num > 0 /\ recall.num < recall.den

\* C10 (as stated): calculate_recall ends in an error, never in a value or NaN,
\* when the two lengths differ and also when the reference is empty.
C10_NoRecallWithoutReference ==
    (recall_pc = "done"
        /\ (Len(reference_results) # Len(results) \/ Len(reference_results) = 0))
        => recall = Panic

\* ------------------------------------------------------------------------
\* Claims about Stats::compute
\* ------------------------------------------------------------------------
\* The element at zero-based position idx of the ascending arrangement of s:
\* fewer than idx + 1 samples lie below it, and at least idx + 1 do not exceed
\* it.
OrderStatistic(s, idx) ==
    CHOOSE x \in Range(s) :
        /\ Cardinality({j \in 1..Len(s) : LessNum(s[j], x)}) <= idx
        /\ idx < Cardinality({j \in 1..Len(s) : ~LessNum(x, s[j])})

AllNumbers(s) == \A j \in 1..Len(s) : IsNum(s[j])

\* C11: for every series of n >= 1 numbers, in whatever order they were
\* recorded, Stats::compute returns the order statistics of the ascending
\* series without interpolation: min = s[0], max = s[n-1], median = s[n div 2],
\* q1 = s[n div 4], q3 = s[3n div 4].
C11_OrderStatistics ==
    (stats_pc = "done" /\ Len(stats_input) >= 1 /\ AllNumbers(stats_input)) =>
        LET n == Len(stats_input) IN
        /\ stats_result # Panic
        /\ stats_result.min = OrderStatistic(stats_input, 0)
        /\ stats_result.max = OrderStatistic(stats_input, n - 1)
        /\ stats_result.median = OrderStatistic(stats_input, n \div 2)
        /\ stats_result.q1 = OrderStatistic(stats_input, n \div 4)
        /\ stats_result.q3 = OrderStatistic(stats_input, (3 * n) \div 4)

\* The samples 1, 2, 3, 4 recorded out of order: median 3, q1 2, q3 4.
C11_Witness ==
    /\ stats_pc = "done"
    /\ stats_input = <<Value(3, 1), Value(1, 1), Value(4, 1), Value(2, 1)>>
    /\ stats_result # Panic
    /\ stats_result.min = Value(1, 1) /\ stats_result.max = Value(4, 1)
    /\ stats_result.median = Value(3, 1)
    /\ stats_result.q1 = Value(2, 1) /\ stats_result.q3 = Value(4, 1)

\* C12: Stats::compute of fewer than two samples fails with an error: it does
\* not panic, and it does not return a summary whose std is not finite.
C12_FewSamplesFailWithError ==
    (stats_pc = "done" /\ Len(stats_input) < 2 /\ AllNumbers(stats_input)) =>
        /\ stats_result # Panic
        /\ "std" \notin DOMAIN stats_result

\* ------------------------------------------------------------------------
\* Claims about the progress lines and the recorder
\* ------------------------------------------------------------------------
\* The progress lines a run has printed once it has handed `issued` queries to
\* the database: one for each index 0, ProgressEvery, 2 * ProgressEvery, ...
\* below `issued`.
ProgressLines(issued) ==
    IF issued = 0 THEN 0 ELSE ((issued - 1) \div ProgressEvery) + 1

\* C13: a run prints a progress line (index, total) exactly for the query
\* indices that are multiples of 100, in increasing order, each by the time
\* that query is handed to the database and none for a query that is never
\* handed over (after a failure), with total = min(limit, number of queries).
C13_ProgressEveryHundred ==
    \A run \in Runs :
        run.pc # "start" =>
            /\ Len(run.progress) = ProgressLines(Len(run.issued))
            /\ \A j \in 1..Len(run.progress) :
                 run.progress[j] = <<(j - 1) * 100, ExpectedCount>>

\* A run over 101 queries has printed the lines for 0 and for 100.
C13_Witness ==
    /\ Len(qvs) = 101
    /\ limit = None
    /\ blocking.pc = "done"
    /\ blocking.progress = <<<<0, 101>>, <<100, 101>>>>
    /\ cooperative.pc = "done"
    /\ cooperative.progress = <<<<0, 101>>, <<100, 101>>>>

\* The recorder of a run that has started: three buffers of one length, the
\* number of queries completed so far, and the k and nprobe of the run, which
\* the report repeats.
RecorderSound(run) ==
    run.pc # "start" =>
        /\ Len(run.stats.seconds) = run.qi
        /\ Len(run.stats.flat_seconds) = run.qi
        /\ Len(run.stats.recalls) = run.qi
        /\ run.stats.k = k /\ run.stats.nprobe = nprobe
        /\ run.report # None =>
             (run.report.some.k = k /\ run.report.some.nprobe = nprobe)

\* b is a with one element appended.
Extends(a, b) == Len(b) = Len(a) + 1 /\ SubSeq(b, 1, Len(a)) = a

\* A step of a started run leaves its recorder alone, or it is the step that
\* completes a query and appends one sample to each buffer.
RecorderStep(old, new) ==
    old.pc # "start" =>
        \/ new.stats = old.stats
        \/ /\ old.pc \in {"flat", "await_attrs"}
           /\ new.qi = old.qi + 1
           /\ Extends(old.stats.seconds, new.stats.seconds)
           /\ Extends(old.stats.flat_seconds, new.stats.flat_seconds)
           /\ Extends(old.stats.recalls, new.stats.recalls)
           /\ new.stats.k = old.stats.k /\ new.stats.nprobe = old.stats.nprobe

\* C14: in every state of a run the three sample buffers of the recorder have
\* the same length, the number of queries completed so far; only the step that
\* records a query changes them, appending one element to each and keeping the
\* earlier samples in place; k and nprobe stay as constructed up to the report.
C14_RecorderAppendOnly ==
    /\ [](\A run \in Runs : RecorderSound(run))
    /\ [][RecorderStep(blocking, blocking') /\ RecorderStep(cooperative, cooperative')]_vars

\* The cooperative run is in its third query with two different durations
\* recorded, in the order of the queries.
C14_Witness ==
    /\ cooperative.pc = "await_attrs"
    /\ cooperative.qi = 2
    /\ Len(cooperative.stats.seconds) = 2
    /\ cooperative.stats.seconds = <<ElapsedQuery(0), ElapsedQuery(1)>>
    /\ cooperative.stats.seconds[1] # cooperative.stats.seconds[2]

====
